---- MODULE Spec2Model ----
(***************************************************************************)
(* Model of the parallel question processor: the questions table with its  *)
(* processing_status column (src/database.ts, src/migrate.ts), the worker  *)
(* pool of QuestionProcessor (processor.ts) and the ProgressTracker        *)
(* counters (src/progress.ts).                                             *)
(*                                                                         *)
(* One action is one run-to-completion segment of the JavaScript program:  *)
(* the code between two awaits of a worker, the SIGINT callback, or one    *)
(* statement group of run().  A kill of the process (Crash) can happen     *)
(* between any two of them; the table survives it, the memory does not.    *)
(***************************************************************************)
EXTENDS Integers, FiniteSets, Sequences, TLC

\* ------------------------------------------------------------------ bounds
NumItems == 2          \* rows of the questions table
NumWorkers == 2        \* config.workers ranges over 1..NumWorkers
MaxBatchSize == 2      \* config.batchSize ranges over 1..MaxBatchSize
MaxLimit == 1          \* config.limit ranges over 0 (not given) .. MaxLimit
MaxClaims == 3         \* non-empty claims of one process (caps the batch counters)
NumKeys == 3           \* GeminiClient.apiKeys.length ranges over 1..NumKeys

\* ------------------------------------------------------- program constants
MAX_503_RETRIES == 10

Items == 1..NumItems
UnknownId == 0         \* an id the service returns that is no row's id
Workers == 1..NumWorkers
NoLimit == 0           \* config.limit undefined: maxBatches = Infinity

VARIABLES
  status,                \* questions.processing_status, per row
  config,                \* [batchSize, limit, workers] of this command line
  runPc,                 \* position of run(): start, reset, launch, running, done, exited
  nextWorker,            \* index of Array.from in run() while launching
  resetChanges,          \* result.changes of the last resetStuckBatches
  pc,                    \* per worker: idle, dispatch, pacing, retrySleep, stopped
  batch,                 \* per worker: ids of the loop body's batch / questionIds
  batchesProcessed,      \* per worker: local batchesProcessed
  claimLogged,           \* per worker: the batch number in its last logBatch line
  stopSignal,            \* QuestionProcessor.stopSignal
  consecutive503Errors,  \* QuestionProcessor.consecutive503Errors
  exitCode,              \* -1 while the process lives, else its exit status
  stats,                 \* ProgressTracker.stats
  workerStats,           \* ProgressTracker.workerStats
  claimCap,              \* non-empty claims one process makes at most (model bound)
  apiKeys,               \* GeminiClient.apiKeys.length
  currentKeyIndex,       \* GeminiClient.currentKeyIndex
  exhaustedKeys,         \* GeminiClient.exhaustedKeys
  keyPc,                 \* per caller of the client: idle, dispatch, rotating
  usedKey,               \* per caller: index of the key its request in flight was sent with
  rotateResult,          \* per caller: what its last rotateKey() resolved to
  questions,             \* a DatabaseClient called on its own: per row of its table the
                         \* processing_status and whether b, c and d hold answers
  returned,              \* that client's last call: [op, value]
  received,              \* a list of ProcessedQuestion as processBatch returned it
  sanitized,             \* what the last sanitizeBatch returned
  validationResult,      \* what the last validateBatch returned
  outcome,               \* the call the worker made for the list: updateBatch or markBatchFailed
  otherPc,               \* a second process on the same table: absent, dispatch, done
  otherBatch,            \* the batch the worker of the second process holds
  migratePc              \* position of migrateDatabase: idle, altered, indexed, returned

vars == <<status, config, runPc, nextWorker, resetChanges, pc,
          batch, batchesProcessed, claimLogged, stopSignal,
          consecutive503Errors, exitCode, stats, workerStats, claimCap,
          apiKeys, currentKeyIndex, exhaustedKeys, keyPc, usedKey, rotateResult,
          questions, returned, received, sanitized, validationResult, outcome,
          otherPc, otherBatch, migratePc>>

\* the key pool of the GeminiClient and its callers
keyVars == <<apiKeys, currentKeyIndex, exhaustedKeys, keyPc, usedKey, rotateResult>>

\* the table and the last call of the DatabaseClient called on its own
tableVars == <<questions, returned>>

\* what no step of the worker pool changes: worker() calls none of
\* markKeyExhausted, hasAvailableKeys, rotateKey
\* the Validator and the list it is given
validatorVars == <<received, sanitized, validationResult, outcome>>

\* the second process
otherVars == <<otherPc, otherBatch>>

cfgVars == <<config, claimCap, keyVars, tableVars, validatorVars, otherVars, migratePc>>
dbVars == <<status>>
workerVars == <<pc, batch, batchesProcessed, claimLogged>>
progressVars == <<stats, workerStats>>

\* ------------------------------------------------------------ the table
Statuses == {"unprocessed", "processing", "completed"}

WithStatus(st, s) == {i \in Items : st[i] = s}

\* SELECT COUNT(*) ... WHERE processing_status = 'unprocessed'
getUnprocessedCount(st) == Cardinality(WithStatus(st, "unprocessed"))

\* SELECT COUNT(*) FROM questions
getTotalQuestions(st) == Cardinality(DOMAIN st)

SetMin(S) == CHOOSE m \in S : \A x \in S : m <= x

\* the first n elements of S in the table's scan order (ascending row)
RECURSIVE FirstN(_, _)
FirstN(S, n) ==
  IF n <= 0 \/ S = {} THEN {}
  ELSE LET m == SetMin(S) IN {m} \cup FirstN(S \ {m}, n - 1)

\* claimBatch step 1: SELECT id ... WHERE processing_status = 'unprocessed' LIMIT ?
claimBatchIds_NoLimit(st, n) == WithStatus(st, "unprocessed")

claimBatchIds(st, n) == FirstN(WithStatus(st, "unprocessed"), n)

\* claimBatch step 2: UPDATE ... SET processing_status = 'processing' WHERE id IN (ids)
claimBatchUpdate_NoMark(st, ids) == st

claimBatchUpdate(st, ids) ==
  [i \in Items |-> IF i \in ids THEN "processing" ELSE st[i]]

\* updateBatch: one UPDATE ... WHERE id = q.id per element of the processed list
updateBatch(st, processed, newStatus) ==
  [i \in Items |->
     IF \E k \in 1..Len(processed) : processed[k].id = i THEN newStatus ELSE st[i]]

\* markBatchFailed: UPDATE ... SET processing_status = 'unprocessed' WHERE id IN (ids)
markBatchFailed_AllProcessing(st, ids) ==
  [i \in Items |-> IF st[i] = "processing" THEN "unprocessed" ELSE st[i]]

markBatchFailed_Failed(st, ids) ==
  IF ids = {} THEN st
  ELSE [i \in Items |-> IF i \in ids THEN "failed" ELSE st[i]]

markBatchFailed(st, ids) ==
  IF ids = {} THEN st
  ELSE [i \in Items |-> IF i \in ids THEN "unprocessed" ELSE st[i]]

\* resetStuckBatches: UPDATE ... SET 'unprocessed' WHERE processing_status = 'processing'
resetStuckBatches_All(st) == [i \in Items |-> "unprocessed"]

resetStuckBatches_Skip(st) == st

resetStuckBatches(st) ==
  [i \in Items |-> IF st[i] = "processing" THEN "unprocessed" ELSE st[i]]

\* result.changes of that UPDATE
resetStuckChanges(st) == Cardinality(WithStatus(st, "processing"))

\* migrateDatabase: ADD COLUMN processing_status DEFAULT 'unprocessed', then
\* 'completed' for every row whose b holds an answer
migrateDatabase(opt) ==
  [i \in Items |-> [processing_status |-> IF opt[i] THEN "completed" ELSE "unprocessed",
                    options |-> opt[i]]]

\* the processing_status column of a table
StatusOf(q) == [i \in Items |-> q[i].processing_status]

\* the table after its processing_status column has become st
WithStatusColumn(q, st) == [i \in Items |-> [q[i] EXCEPT !.processing_status = st[i]]]

\* updateBatch: SET question = ?, a = ?, b = ?, c = ?, d = ?, ... WHERE id = ?
updateBatchOptions(q, processed) ==
  [i \in Items |->
     IF \E k \in 1..Len(processed) : processed[k].id = i
     THEN [q[i] EXCEPT !.options = TRUE] ELSE q[i]]

NoReturn == [op |-> "none", value |-> 0]

\* a newly migrated table of questions without answers, no call made yet
FreshTable ==
  /\ questions = migrateDatabase([i \in Items |-> FALSE])
  /\ returned = NoReturn

\* migrateDatabase has returned
Migrated == migratePc = "returned"

\* the processing_status of a row while the table has no such column
NoColumn == "no column"

\* a table as the import step leaves it: no processing_status column
importedTable(opt) == [i \in Items |-> [processing_status |-> NoColumn, options |-> opt[i]]]

\* PRAGMA table_info(questions) lists processing_status
hasStatusColumn(q) == \E i \in Items : q[i].processing_status # NoColumn

\* ALTER TABLE questions ADD COLUMN processing_status TEXT DEFAULT "unprocessed"
addStatusColumn(q) == [i \in Items |-> [q[i] EXCEPT !.processing_status = "unprocessed"]]

\* UPDATE ... SET processing_status = 'completed' WHERE b IS NOT NULL AND b != '' AND b != ' '
markAnswered(q) ==
  [i \in Items |-> IF q[i].options THEN [q[i] EXCEPT !.processing_status = "completed"] ELSE q[i]]

\* no second process has been started
NoOther ==
  /\ otherPc = "absent"
  /\ otherBatch = {}

\* ------------------------------------------------------------ Validator
\* A ProcessedQuestion is followed by what the Validator looks at: whether
\* a, b, c and d are four different values ("duplicate" if not), whether one
\* of four different values is empty or blank ("empty"), and its metadata:
\* undefined ("absent"), the empty string ("blank"), a string JSON.parse
\* accepts ("json") or one it throws on ("malformed").
OptionKinds == {"distinct", "duplicate", "empty"}
MetadataKinds == {"absent", "blank", "json", "malformed"}
ProcessedQuestions == [options : OptionKinds, metadata : MetadataKinds]

\* if (q.metadata): undefined and '' are falsy
HasMetadata(q) == q.metadata \notin {"absent", "blank"}

\* JSON.parse(q.metadata) returns
JsonParses(q) == q.metadata = "json"

\* sanitizeBatch: metadata that does not parse becomes undefined
sanitizeBatch_Keep(qs) == qs

sanitizeBatch(qs) ==
  [k \in 1..Len(qs) |->
     IF HasMetadata(qs[k]) /\ ~JsonParses(qs[k])
     THEN [qs[k] EXCEPT !.metadata = "absent"] ELSE qs[k]]

Valid == [valid |-> TRUE, reason |-> "none"]
Invalid(why) == [valid |-> FALSE, reason |-> why]

\* validate: uniqueness, then non-empty, then the metadata
validate(q) ==
  IF q.options = "duplicate" THEN Invalid("Options not unique")
  ELSE IF q.options = "empty" THEN Invalid("Empty option found")
  ELSE IF HasMetadata(q) /\ ~JsonParses(q) THEN Invalid("Invalid JSON metadata")
  ELSE Valid

\* validateBatch: the result of the first question that is not valid
RECURSIVE validateFrom(_, _)
validateFrom(qs, k) ==
  IF k > Len(qs) THEN Valid
  ELSE IF ~validate(qs[k]).valid THEN validate(qs[k])
  ELSE validateFrom(qs, k + 1)

validateQuestions(qs) == validateFrom(qs, 1)

NoResult == [valid |-> FALSE, reason |-> "not called"]

\* no list has been handled
FreshValidator ==
  /\ received = <<>>
  /\ sanitized = <<>>
  /\ validationResult = NoResult
  /\ outcome = "none"

\* --------------------------------------------------- external collaborators
\* An error message is modelled by the set of substrings the worker tests for:
\* "503", "429", "status", "network", "ECONNREFUSED", "ENOTFOUND", and "5dd"
\* for a match of the regular expression /5\d{2}/.
HttpError(code, bodyTokens) ==
  (IF code = 503 THEN {"503"} ELSE {}) \cup
  (IF code = 429 THEN {"429"} ELSE {}) \cup
  (IF code \in 500..599 THEN {"5dd"} ELSE {}) \cup bodyTokens

\* `Gemini API error (${response.status}): ${errorText}`, a rejected fetch,
\* and the errors of the response checks and of JSON.parse
ErrorMessages ==
  { HttpError(503, {}), HttpError(429, {}), HttpError(500, {"status"}),
    HttpError(500, {}), HttpError(400, {}), {"network"}, {"ECONNREFUSED"}, {} }

\* some shift of the decimal digits of n shows the three digits k
RECURSIVE HasDigits(_, _)
HasDigits(n, K) ==
  IF n < 100 THEN FALSE
  ELSE (n % 1000) \in K \/ HasDigits(n \div 10, K)

\* `Expected ${batch.length} questions, got ${processed.length}`
LengthMismatchMessage(n, m) ==
  (IF HasDigits(n, {503}) \/ HasDigits(m, {503}) THEN {"503"} ELSE {}) \cup
  (IF HasDigits(n, {429}) \/ HasDigits(m, {429}) THEN {"429"} ELSE {}) \cup
  (IF HasDigits(n, 500..599) \/ HasDigits(m, 500..599) THEN {"5dd"} ELSE {})

\* one element of the list processBatch returns: the id the service wrote
\* and whether Validator.validate accepts the element
Results == [id : Items \cup {UnknownId}, valid : BOOLEAN]

\* lengths of a returned list whose digits the worker's substring tests match
MatchedLengths == {429, 503}

\* The lists the service is taken to return for a batch of n questions: every
\* list of n elements (no step of the worker depends on the order of the list,
\* so one list stands for all its permutations), and for every other length up
\* to n + 1, and for the lengths of MatchedLengths, the list that repeats one
\* unknown element.
ResultKey(r) == 2 * r.id + (IF r.valid THEN 1 ELSE 0)

\* the lists of n elements, for every size n of a batch
FullResponseTable ==
  [n \in 0..MaxBatchSize |->
     {p \in [1..n -> Results] :
        \A k \in 1..(n - 1) : ResultKey(p[k]) <= ResultKey(p[k + 1])}]

FullResponses(n) == FullResponseTable[n]

\* the lists of another length
ShortResponseTable ==
  [n \in 0..MaxBatchSize |->
     {[k \in 1..m |-> [id |-> UnknownId, valid |-> TRUE]] :
        m \in ((0..(n + 1)) \cup MatchedLengths) \ {n}}]

ShortResponses(n) == ShortResponseTable[n]

Responses(n) == FullResponses(n) \cup ShortResponses(n)

\* ------------------------------------------------- GeminiClient's key pool
KeyIndexes(n) == 0..(n - 1)

\* markKeyExhausted: this.exhaustedKeys.add(this.currentKeyIndex)
markKeyExhausted_Replace(ex, idx) == {idx}

markKeyExhausted(ex, idx) == ex \cup {idx}

\* getAvailableKeyCount: this.apiKeys.length - this.exhaustedKeys.size
getAvailableKeyCount(ex, n) == n - Cardinality(ex)

\* hasAvailableKeys: this.exhaustedKeys.size < this.apiKeys.length
hasAvailableKeys(ex, n) == Cardinality(ex) < n

\* the do-while of rotateKey: advance, count the attempt, give up after
\* apiKeys.length attempts, repeat while the key is exhausted
RECURSIVE rotateScan(_, _, _, _)
rotateScan(idx, ex, n, attempts) ==
  LET i == (idx + 1) % n
      a == attempts + 1
  IN IF a > n THEN [index |-> i, ok |-> FALSE]
     ELSE IF i \in ex THEN rotateScan(i, ex, n, a)
     ELSE [index |-> i, ok |-> TRUE]

\* rotateKey up to its await: the new currentKeyIndex and the value the
\* promise will resolve to
rotateKey_NoCheck(idx, ex, n) == rotateScan(idx, ex, n, 0)

rotateKey_Lowest(idx, ex, n) ==
  IF Cardinality(ex) >= n THEN [index |-> idx, ok |-> FALSE]
  ELSE [index |-> SetMin(KeyIndexes(n) \ ex), ok |-> TRUE]

rotateKey(idx, ex, n) ==
  IF Cardinality(ex) >= n THEN [index |-> idx, ok |-> FALSE]
  ELSE rotateScan(idx, ex, n, 0)

\* Validator.validateBatch
validateBatch(processed) == \A k \in 1..Len(processed) : processed[k].valid

\* QuestionProcessor.isFatalError
isFatalError(msg) ==
  IF "503" \in msg THEN FALSE
  ELSE \/ "429" \in msg
       \/ ("status" \in msg /\ "5dd" \in msg)
       \/ "network" \in msg
       \/ "ECONNREFUSED" \in msg
       \/ "ENOTFOUND" \in msg

\* ------------------------------------------------------- ProgressTracker
CeilDiv(a, b) == (a + b - 1) \div b

\* constructor
NewStats(totalQuestions, unprocessedCount, batchSize) ==
  [ batchNumber |-> 0,
    totalBatches |-> CeilDiv(unprocessedCount, batchSize),
    questionsProcessed |-> totalQuestions - unprocessedCount,
    totalQuestions |-> totalQuestions,
    failedBatches |-> 0 ]

NewWorkerStats ==
  [w \in Workers |-> [completed |-> 0, failed |-> 0, questionsProcessed |-> 0]]

NoStats == NewStats(0, 0, 1)

startBatch(s) == [s EXCEPT !.batchNumber = @ + 1]

getBatchNumber(s) == s.batchNumber

completeBatch(s, n) == [s EXCEPT !.questionsProcessed = @ + n]

completeBatchWorker_CountBatches(ws, w, n) ==
  [ws EXCEPT ![w].completed = @ + 1, ![w].questionsProcessed = @ + 1]

completeBatchWorker(ws, w, n) ==
  [ws EXCEPT ![w].completed = @ + 1, ![w].questionsProcessed = @ + n]

failBatch(s) == [s EXCEPT !.failedBatches = @ + 1]

failBatchWorker(ws, w) == [ws EXCEPT ![w].failed = @ + 1]

\* ------------------------------------------------------------------ Init
\* A migrated table as the import step and earlier runs leave it: every row
\* is unprocessed or completed.  The memory is that of a fresh process.
FreshPc == [w \in Workers |-> "idle"]
FreshBatch == [w \in Workers |-> {}]
FreshCount == [w \in Workers |-> 0]

\* the fields of a new QuestionProcessor and of its ProgressTracker
FreshMemory ==
  /\ runPc = "start"
  /\ nextWorker = 1
  /\ resetChanges = 0
  /\ pc = FreshPc
  /\ batch = FreshBatch
  /\ batchesProcessed = FreshCount
  /\ claimLogged = FreshCount
  /\ stopSignal = FALSE
  /\ consecutive503Errors = 0
  /\ exitCode = -1
  /\ stats = NoStats
  /\ workerStats = NewWorkerStats

\* the fields of a new GeminiClient for n keys, no call in progress
FreshPool(n) ==
  /\ apiKeys = n
  /\ currentKeyIndex = 0
  /\ exhaustedKeys = {}
  /\ keyPc = [c \in Workers |-> "idle"]
  /\ usedKey = [c \in Workers |-> 0]
  /\ rotateResult = [c \in Workers |-> "none"]

Init ==
  /\ status \in [Items -> {"unprocessed", "completed"}]
  /\ config \in [batchSize : 1..MaxBatchSize, limit : NoLimit..MaxLimit,
                 workers : 1..NumWorkers]
  /\ FreshMemory
  /\ FreshPool(NumKeys)
  /\ FreshTable
  /\ FreshValidator
  /\ NoOther
  /\ Migrated
  /\ claimCap = MaxClaims

\* the memory of a newly started process; the table is what the last one left
NewProcess ==
  /\ runPc' = "start"
  /\ nextWorker' = 1
  /\ resetChanges' = 0
  /\ pc' = FreshPc
  /\ batch' = FreshBatch
  /\ batchesProcessed' = FreshCount
  /\ claimLogged' = FreshCount
  /\ stopSignal' = FALSE
  /\ consecutive503Errors' = 0
  /\ exitCode' = -1
  /\ stats' = NoStats
  /\ workerStats' = NewWorkerStats
  /\ UNCHANGED <<status, cfgVars>>

Alive == runPc \in {"start", "reset", "launch", "running"}

\* the process is killed at an arbitrary point and started again
Crash ==
  /\ Alive
  /\ NewProcess

\* the command is run again after the process has ended
Restart ==
  /\ runPc \in {"done", "exited"}
  /\ NewProcess

\* ------------------------------------------------------------------ run()
\* run(): resetStuckBatches(this.database)
RunReset ==
  /\ runPc = "start"
  /\ status' = resetStuckBatches(status)
  /\ resetChanges' = resetStuckChanges(status)
  /\ runPc' = "reset"
  /\ UNCHANGED <<cfgVars, nextWorker, workerVars, stopSignal,
                 consecutive503Errors, exitCode, progressVars>>

\* run(): the counts, the early return when nothing is unprocessed, the
\* ProgressTracker and the SIGINT handler
RunInit ==
  /\ runPc = "reset"
  /\ LET totalQuestions == getTotalQuestions(status)
         unprocessedCount == getUnprocessedCount(status)
     IN IF unprocessedCount = 0
        THEN /\ runPc' = "done"
             /\ exitCode' = 0
             /\ UNCHANGED progressVars
        ELSE /\ runPc' = "launch"
             /\ stats' = NewStats(totalQuestions, unprocessedCount, config.batchSize)
             /\ workerStats' = NewWorkerStats
             /\ UNCHANGED exitCode
  /\ UNCHANGED <<dbVars, cfgVars, nextWorker, resetChanges, workerVars,
                 stopSignal, consecutive503Errors>>

\* ---------------------------------------------------------------- worker()
\* while (!this.stopSignal && batchesProcessed < maxBatches) is false
LoopExit(w) ==
  /\ stopSignal \/ (config.limit # NoLimit /\ batchesProcessed[w] >= config.limit)
  /\ pc' = [pc EXCEPT ![w] = "stopped"]
  /\ batch' = [batch EXCEPT ![w] = {}]
  /\ UNCHANGED <<dbVars, batchesProcessed, claimLogged, stopSignal, consecutive503Errors,
                 progressVars>>

LoopEnabled(w) ==
  /\ ~stopSignal
  /\ config.limit = NoLimit \/ batchesProcessed[w] < config.limit

\* claimBatch returned []: break
EmptyClaim_CountsFailure(w) ==
  /\ LoopEnabled(w)
  /\ claimBatchIds(status, config.batchSize) = {}
  /\ pc' = [pc EXCEPT ![w] = "stopped"]
  /\ batch' = [batch EXCEPT ![w] = {}]
  /\ stats' = failBatch(stats)
  /\ workerStats' = failBatchWorker(workerStats, w)
  /\ stopSignal' = TRUE
  /\ UNCHANGED <<dbVars, batchesProcessed, claimLogged, consecutive503Errors>>

EmptyClaim(w) ==
  /\ LoopEnabled(w)
  /\ claimBatchIds(status, config.batchSize) = {}
  /\ pc' = [pc EXCEPT ![w] = "stopped"]
  /\ batch' = [batch EXCEPT ![w] = {}]
  /\ UNCHANGED <<dbVars, batchesProcessed, claimLogged, stopSignal, consecutive503Errors,
                 progressVars>>

\* claimBatch returned a batch: batchesProcessed++, startBatch, and the
\* request of processBatch is sent
Claim(w) ==
  /\ LoopEnabled(w)
  /\ stats.batchNumber < claimCap
  /\ LET ids == claimBatchIds(status, config.batchSize)
     IN /\ ids # {}
        /\ status' = claimBatchUpdate(status, ids)
        /\ batch' = [batch EXCEPT ![w] = ids]
  /\ batchesProcessed' = [batchesProcessed EXCEPT ![w] = @ + 1]
  /\ stats' = startBatch(stats)
  /\ claimLogged' = [claimLogged EXCEPT ![w] = getBatchNumber(startBatch(stats))]
  /\ pc' = [pc EXCEPT ![w] = "dispatch"]
  /\ UNCHANGED <<stopSignal, consecutive503Errors, workerStats>>

\* the code from the while condition to the first await of the loop body
LoopTop(w) == LoopExit(w) \/ EmptyClaim(w) \/ Claim(w)

\* run(): Array.from calls worker(1), worker(2), ... ; each runs to its first await
WorkerStart(w) ==
  /\ runPc = "launch"
  /\ w = nextWorker
  /\ LoopTop(w)
  /\ nextWorker' = w + 1
  /\ runPc' = IF w = config.workers THEN "running" ELSE "launch"
  /\ UNCHANGED <<cfgVars, resetChanges, exitCode>>

\* await this.sleep(...) of the pacing or of the 503 pause resolves
WorkerWake(w) ==
  /\ runPc = "running"
  /\ pc[w] \in {"pacing", "retrySleep"}
  /\ LoopTop(w)
  /\ UNCHANGED <<cfgVars, nextWorker, resetChanges, runPc, exitCode>>

\* markBatchFailed(questionIds); failBatch(workerId); then the given sleep
Release(w, sleep) ==
  /\ status' = markBatchFailed(status, batch[w])
  /\ stats' = failBatch(stats)
  /\ workerStats' = failBatchWorker(workerStats, w)
  /\ pc' = [pc EXCEPT ![w] = sleep]
  /\ UNCHANGED <<batch, batchesProcessed, claimLogged, stopSignal, runPc, exitCode>>

\* this.stopSignal = true; process.exit(1)
FatalExit(w) ==
  /\ stopSignal' = TRUE
  /\ runPc' = "exited"
  /\ exitCode' = 1
  /\ UNCHANGED <<dbVars, workerVars, progressVars>>

\* the catch block of the loop body
Catch_KeepOn503(w, msg) ==
  IF "503" \in msg
  THEN /\ consecutive503Errors' = consecutive503Errors + 1
       /\ pc' = [pc EXCEPT ![w] = "retrySleep"]
       /\ UNCHANGED <<dbVars, batch, batchesProcessed, claimLogged, stopSignal, runPc, exitCode,
                      progressVars>>
  ELSE /\ UNCHANGED consecutive503Errors
       /\ IF isFatalError(msg)
          THEN FatalExit(w)
          ELSE Release(w, "pacing")

Catch(w, msg) ==
  IF "503" \in msg
  THEN /\ consecutive503Errors' = consecutive503Errors + 1
       /\ IF consecutive503Errors + 1 >= MAX_503_RETRIES
          THEN FatalExit(w)
          ELSE Release(w, "retrySleep")
  ELSE /\ UNCHANGED consecutive503Errors
       /\ IF isFatalError(msg)
          THEN FatalExit(w)
          ELSE Release(w, "pacing")

\* updateBatch(sanitized, 'completed'); completeBatch; the 503 counter is reset
Commit_KeepCounter(w, processed) ==
  /\ status' = updateBatch(status, processed, "completed")
  /\ stats' = completeBatch(stats, Cardinality(batch[w]))
  /\ workerStats' = completeBatchWorker(workerStats, w, Cardinality(batch[w]))
  /\ UNCHANGED consecutive503Errors
  /\ pc' = [pc EXCEPT ![w] = "pacing"]
  /\ UNCHANGED <<batch, batchesProcessed, claimLogged, stopSignal, runPc, exitCode>>

Commit(w, processed) ==
  /\ status' = updateBatch(status, processed, "completed")
  /\ stats' = completeBatch(stats, Cardinality(batch[w]))
  /\ workerStats' = completeBatchWorker(workerStats, w, Cardinality(batch[w]))
  /\ consecutive503Errors' = 0
  /\ pc' = [pc EXCEPT ![w] = "pacing"]
  /\ UNCHANGED <<batch, batchesProcessed, claimLogged, stopSignal, runPc, exitCode>>

\* processBatch returned a list: length check, validation, commit or release
Returned_NoValidation(w, processed) ==
  IF Len(processed) # Cardinality(batch[w])
  THEN Catch(w, LengthMismatchMessage(Cardinality(batch[w]), Len(processed)))
  ELSE Commit(w, processed)

Returned(w, processed) ==
  IF Len(processed) # Cardinality(batch[w])
  THEN Catch(w, LengthMismatchMessage(Cardinality(batch[w]), Len(processed)))
  ELSE IF ~validateBatch(processed)
       THEN Release(w, "pacing") /\ UNCHANGED consecutive503Errors
       ELSE Commit(w, processed)

\* await this.gemini.processBatch(batch) settles: the loop body runs to its next await
DispatchReturn(w) ==
  /\ runPc = "running"
  /\ pc[w] = "dispatch"
  /\ \/ \E processed \in Responses(Cardinality(batch[w])) : Returned(w, processed)
     \/ \E msg \in ErrorMessages : Catch(w, msg)
  /\ UNCHANGED <<cfgVars, nextWorker, resetChanges>>

\* the SIGINT callback
Sigint ==
  /\ runPc = "running"
  /\ stopSignal' = TRUE
  /\ UNCHANGED <<dbVars, cfgVars, runPc, nextWorker, resetChanges, workerVars,
                 consecutive503Errors, exitCode, progressVars>>

\* Promise.all(workers) resolves: summary, run() returns
RunFinish ==
  /\ runPc = "running"
  /\ \A w \in 1..config.workers : pc[w] = "stopped"
  /\ runPc' = "done"
  /\ exitCode' = 0
  /\ UNCHANGED <<dbVars, cfgVars, nextWorker, resetChanges, workerVars,
                 stopSignal, consecutive503Errors, progressVars>>

Next ==
  \/ RunReset
  \/ RunInit
  \/ \E w \in Workers : WorkerStart(w)
  \/ \E w \in Workers : WorkerWake(w)
  \/ \E w \in Workers : DispatchReturn(w)
  \/ Sigint
  \/ RunFinish
  \/ Crash
  \/ Restart

Spec == Init /\ [][Next]_vars

\* The same program started with one question per batch and no --limit, and
\* observed for enough claims that a run of 503 answers can reach the cap.
RetryClaims == MAX_503_RETRIES + 1

InitRetry ==
  /\ status \in [Items -> {"unprocessed", "completed"}]
  /\ config \in [batchSize : {1}, limit : {NoLimit}, workers : {1}]
  /\ FreshMemory
  /\ FreshPool(NumKeys)
  /\ FreshTable
  /\ FreshValidator
  /\ NoOther
  /\ Migrated
  /\ claimCap = RetryClaims

SpecRetry == InitRetry /\ [][Next]_vars

\* ------------------------------------------------------ a run that succeeds
\* One run without --limit, signal or kill, in which every processBatch
\* resolves with one valid result per question of the batch.  The table has
\* work to do: rows that are unprocessed, or left 'processing' by a process
\* that was killed.
EchoResponses(ids) ==
  {processed \in Responses(Cardinality(ids)) :
     /\ Len(processed) = Cardinality(ids)
     /\ {processed[k].id : k \in 1..Len(processed)} = ids
     /\ validateBatch(processed)}

DispatchSuccess(w) ==
  /\ runPc = "running"
  /\ pc[w] = "dispatch"
  /\ \E processed \in EchoResponses(batch[w]) : Returned(w, processed)
  /\ UNCHANGED <<cfgVars, nextWorker, resetChanges>>

InitSuccess ==
  /\ status \in [Items -> Statuses]
  /\ WithStatus(status, "completed") # Items
  /\ config \in [batchSize : 1..MaxBatchSize, limit : {NoLimit}, workers : 1..NumWorkers]
  /\ FreshMemory
  /\ FreshPool(NumKeys)
  /\ FreshTable
  /\ FreshValidator
  /\ NoOther
  /\ Migrated
  /\ claimCap = NumItems

NextSuccess ==
  \/ RunReset
  \/ RunInit
  \/ \E w \in Workers : WorkerStart(w)
  \/ \E w \in Workers : WorkerWake(w)
  \/ \E w \in Workers : DispatchSuccess(w)
  \/ RunFinish

\* the event loop runs every continuation that is ready: a timer that was
\* set fires, a request that was sent settles, a resolved promise is resumed
FairSuccess ==
  /\ WF_vars(RunReset)
  /\ WF_vars(RunInit)
  /\ WF_vars(RunFinish)
  /\ \A w \in Workers :
       WF_vars(WorkerStart(w)) /\ WF_vars(WorkerWake(w)) /\ WF_vars(DispatchSuccess(w))

SpecSuccess == InitSuccess /\ [][NextSuccess]_vars /\ FairSuccess

\* ------------------------------------------------ the key pool on its own
\* The GeminiClient with its callers: requests sent with the current key, the
\* handling of a quota answer, and calls of the public methods in any order.
\* The table and the worker pool are left as constructed.
poolVars == <<status, config, claimCap, tableVars, validatorVars, otherVars, migratePc, runPc, nextWorker, resetChanges, workerVars,
              stopSignal, consecutive503Errors, exitCode, progressVars>>

\* processBatch: fetch(`${this.apiUrl}?key=${this.getCurrentKey()}`, ...)
KeyDispatch(c) ==
  /\ keyPc[c] = "idle"
  /\ keyPc' = [keyPc EXCEPT ![c] = "dispatch"]
  /\ usedKey' = [usedKey EXCEPT ![c] = currentKeyIndex]
  /\ UNCHANGED <<apiKeys, currentKeyIndex, exhaustedKeys, rotateResult, poolVars>>

\* the request settles with anything but a quota answer
KeyDispatchReturn(c) ==
  /\ keyPc[c] = "dispatch"
  /\ keyPc' = [keyPc EXCEPT ![c] = "idle"]
  /\ usedKey' = [usedKey EXCEPT ![c] = 0]
  /\ UNCHANGED <<apiKeys, currentKeyIndex, exhaustedKeys, rotateResult, poolVars>>

\* rotateKey() called by c with ex exhausted: the code up to the await, or
\* to return false
RotateStart(c, ex) ==
  LET r == rotateKey(currentKeyIndex, ex, apiKeys)
  IN /\ currentKeyIndex' = r.index
     /\ keyPc' = [keyPc EXCEPT ![c] = IF r.ok THEN "rotating" ELSE "idle"]
     /\ rotateResult' = [rotateResult EXCEPT ![c] = IF r.ok THEN "none" ELSE "false"]
     /\ usedKey' = [usedKey EXCEPT ![c] = 0]

\* the request of c settles with a quota answer (429): the caller marks the
\* key exhausted and rotates
KeyQuota(c) ==
  /\ keyPc[c] = "dispatch"
  /\ exhaustedKeys' = markKeyExhausted(exhaustedKeys, currentKeyIndex)
  /\ RotateStart(c, markKeyExhausted(exhaustedKeys, currentKeyIndex))
  /\ UNCHANGED <<apiKeys, poolVars>>

\* the 5 second timer of rotateKey fires: return true
RotateReturn(c) ==
  /\ keyPc[c] = "rotating"
  /\ keyPc' = [keyPc EXCEPT ![c] = "idle"]
  /\ rotateResult' = [rotateResult EXCEPT ![c] = "true"]
  /\ UNCHANGED <<apiKeys, currentKeyIndex, exhaustedKeys, usedKey, poolVars>>

\* a call of markKeyExhausted() on its own
MarkKeyExhaustedCall ==
  /\ exhaustedKeys' = markKeyExhausted(exhaustedKeys, currentKeyIndex)
  /\ UNCHANGED <<apiKeys, currentKeyIndex, keyPc, usedKey, rotateResult, poolVars>>

\* a call of rotateKey() on its own
RotateKeyCall(c) ==
  /\ keyPc[c] = "idle"
  /\ RotateStart(c, exhaustedKeys)
  /\ UNCHANGED <<apiKeys, exhaustedKeys, poolVars>>

InitKeys ==
  /\ status = [i \in Items |-> "unprocessed"]
  /\ config = [batchSize |-> 1, limit |-> NoLimit, workers |-> NumWorkers]
  /\ FreshMemory
  /\ \E n \in 1..NumKeys : FreshPool(n)
  /\ FreshTable
  /\ FreshValidator
  /\ NoOther
  /\ Migrated
  /\ claimCap = MaxClaims

NextKeys ==
  \/ \E c \in Workers : KeyDispatch(c)
  \/ \E c \in Workers : KeyDispatchReturn(c)
  \/ \E c \in Workers : KeyQuota(c)
  \/ \E c \in Workers : RotateReturn(c)
  \/ MarkKeyExhaustedCall
  \/ \E c \in Workers : RotateKeyCall(c)

SpecKeys == InitKeys /\ [][NextKeys]_vars

\* ================================================================ properties
\* the batch a worker holds between its claimBatch and its updateBatch or
\* markBatchFailed
Outstanding(w) == IF Alive /\ pc[w] = "dispatch" THEN batch[w] ELSE {}

\* steps of worker w, recognised by what they leave behind
ClaimStep(w) == pc[w] # "dispatch" /\ pc'[w] = "dispatch"
EmptyStep(w) == LoopEnabled(w) /\ pc[w] # "stopped" /\ pc'[w] = "stopped"
CommitStep(w) == workerStats'[w].completed = workerStats[w].completed + 1
ReleaseStep(w) == workerStats'[w].failed = workerStats[w].failed + 1

Smaller(a, b) == IF a <= b THEN a ELSE b

\* C1: mutual exclusion.  No item id is in the outstanding batches of two
\* different workers at the same time.
C1_MutualExclusion ==
  \A v, w \in Workers : v # w => Outstanding(v) \cap Outstanding(w) = {}

C1_Witness ==
  \E v, w \in Workers :
    /\ v # w
    /\ Outstanding(v) # {}
    /\ Outstanding(w) # {}
    /\ stats.failedBatches > 0

\* C2: commit/release exclusivity.  Once the workers are launched, an item is
\* 'processing' only while some worker of the living process holds it in its
\* outstanding batch: a worker that has moved on or has terminated leaves no
\* item of its batch in 'processing'.
C2_EveryBatchResolved ==
  runPc \in {"launch", "running", "done", "exited"} =>
    \A i \in Items :
      status[i] = "processing" => \E w \in Workers : i \in Outstanding(w)

\* C3: crash recovery.  resetStuckBatches turns exactly the 'processing' items
\* into 'unprocessed': none is left 'processing', the 'completed' ones stay, the
\* unprocessed count grows by the number of items that were 'processing' (which
\* is the reported number of changes), and a repeated call changes nothing.
C3_ResetPostcondition ==
  [][ (runPc = "start" /\ runPc' = "reset") =>
        /\ WithStatus(status', "processing") = {}
        /\ WithStatus(status', "completed") = WithStatus(status, "completed")
        /\ WithStatus(status', "unprocessed") =
             WithStatus(status, "unprocessed") \cup WithStatus(status, "processing")
        /\ getUnprocessedCount(status') =
             getUnprocessedCount(status) + Cardinality(WithStatus(status, "processing"))
        /\ resetChanges' = getUnprocessedCount(status') - getUnprocessedCount(status)
        /\ resetStuckBatches(status') = status' ]_vars

C3_Witness ==
  /\ runPc = "reset"
  /\ resetChanges > 0
  /\ WithStatus(status, "completed") # {}

\* C4: in every run, also one that follows a crash, the first claim of a worker
\* happens after resetStuckBatches, and no item is 'processing' at that moment.
C4_ResetBeforeFirstClaim ==
  [][ \A w \in Workers :
        (ClaimStep(w) /\ stats.batchNumber = 0) =>
          /\ runPc = "launch"
          /\ WithStatus(status, "processing") = {} ]_vars

C4_Witness ==
  /\ resetChanges > 0
  /\ stats.batchNumber = 1
  /\ \E w \in Workers : pc[w] = "dispatch"

\* C5: claimBatch(n) returns exactly min(n, number of unprocessed items) items;
\* each was 'unprocessed' before and is 'processing' after the call; every
\* other item keeps its status.
C5_ClaimPostcondition ==
  [][ \A w \in Workers :
        ClaimStep(w) =>
          /\ Cardinality(batch'[w]) =
               Smaller(config.batchSize, getUnprocessedCount(status))
          /\ \A i \in batch'[w] :
               status[i] = "unprocessed" /\ status'[i] = "processing"
          /\ \A i \in Items \ batch'[w] : status'[i] = status[i] ]_vars

C5_Witness ==
  \E w \in Workers :
    /\ pc[w] = "dispatch"
    /\ Cardinality(batch[w]) < config.batchSize
    /\ WithStatus(status, "completed") # {}

\* C6: a claim that finds no unprocessed item changes no item; the worker
\* stops without dispatching, without counting a failed batch and without
\* setting the stop flag, and the other workers are left as they are.
C6_EmptyClaimStops ==
  [][ \A w \in Workers :
        EmptyStep(w) =>
          /\ getUnprocessedCount(status) = 0
          /\ status' = status
          /\ pc'[w] = "stopped"
          /\ stats' = stats
          /\ workerStats' = workerStats
          /\ stopSignal' = stopSignal
          /\ ~stopSignal'
          /\ exitCode' = exitCode
          /\ \A v \in Workers \ {w} : pc'[v] = pc[v] /\ batch'[v] = batch[v] ]_vars

C6_Witness ==
  \E v, w \in Workers :
    /\ pc[w] = "stopped"
    /\ config.limit = NoLimit
    /\ pc[v] = "dispatch"
    /\ ~stopSignal
    /\ runPc = "running"

\* C7: commit postcondition.  After the updateBatch of a commit, every item of
\* the batch the committing worker claimed is 'completed'.
C7_CommitPostcondition ==
  [][ \A w \in Workers :
        CommitStep(w) => \A i \in batch[w] : status'[i] = "completed" ]_vars

\* C8: an item becomes 'completed' only in the commit step of the worker that
\* holds it in its outstanding batch; a commit changes no item outside the
\* committing worker's batch (updateBatch writes the fields and the status of
\* a row in one UPDATE, so the status shows every row a commit reaches first).
C8_CompletedOnlyByHolder ==
  [][ \A i \in Items :
        (status[i] # "completed" /\ status'[i] = "completed") =>
          \E w \in Workers : CommitStep(w) /\ i \in Outstanding(w) ]_vars

\* C9: release postcondition.  After markBatchFailed every item of the batch is
\* 'unprocessed' and a claim of any worker can return it; the items outside the
\* batch are unchanged; for an empty id list nothing changes.
C9_ReleasePostcondition ==
  [][ \A w \in Workers :
        ReleaseStep(w) =>
          /\ batch[w] # {}
          /\ \A i \in batch[w] :
               status'[i] = "unprocessed" /\ i \in claimBatchIds(status', NumItems)
          /\ \A i \in Items \ batch[w] : status'[i] = status[i]
          /\ markBatchFailed(status, {}) = status ]_vars

\* a released item that a different worker has claimed afterwards
C9_Witness ==
  \E v, w \in Workers :
    /\ v # w
    /\ workerStats[w].failed > 0
    /\ pc[w] \in {"pacing", "retrySleep"}
    /\ pc[v] = "dispatch"
    /\ batch[v] \cap batch[w] # {}
    /\ \E i \in Items \ batch[w] : status[i] = "completed"

\* C10: graceful stop.  Once SIGINT has set the stop flag of the running
\* process, no worker claims again, and when that process ends no item is
\* 'processing'.
SigintSeen == runPc = "running" /\ stopSignal

C10_GracefulStop ==
  [][ SigintSeen =>
        /\ \A w \in Workers : ~ClaimStep(w)
        /\ runPc' \in {"done", "exited"} => WithStatus(status', "processing") = {} ]_vars

\* C11: retry cap.  A 503 answer that follows fewer than MAX_503_RETRIES
\* consecutive 503 answers is retried (release, 503 pause, no stop), and the
\* process stops for 503 only on the answer after MAX_503_RETRIES retried ones.
C11_RetryCap ==
  [][\A w \in Workers :
       (runPc = "running" /\ pc[w] = "dispatch" /\ Catch(w, HttpError(503, {})))
         => IF consecutive503Errors < MAX_503_RETRIES
            THEN /\ runPc' = "running"
                 /\ pc'[w] = "retrySleep"
                 /\ \A i \in batch[w] : status'[i] = "unprocessed"
            ELSE runPc' = "exited"]_vars

\* C12: credential pool.  A call of rotateKey() made while fewer than
\* apiKeys.length keys are exhausted is on its way to return true and has made
\* a key current that is not exhausted; a call made when all keys are exhausted
\* returns false, hasAvailableKeys() is false, and the current index is as before.
C12_RotateKey ==
  [][\A c \in Workers :
       (RotateKeyCall(c) \/ KeyQuota(c))
         => IF Cardinality(exhaustedKeys') < apiKeys
            THEN /\ keyPc'[c] = "rotating"
                 /\ currentKeyIndex' \in KeyIndexes(apiKeys) \ exhaustedKeys'
            ELSE /\ keyPc'[c] = "idle"
                 /\ rotateResult'[c] = "false"
                 /\ ~hasAvailableKeys(exhaustedKeys', apiKeys)
                 /\ currentKeyIndex' = currentKeyIndex]_vars

\* every key of a pool of NumKeys is exhausted, one rotateKey() has returned
\* true and a later one false
C12_Witness ==
  /\ apiKeys = NumKeys
  /\ exhaustedKeys = KeyIndexes(apiKeys)
  /\ \E c, d \in Workers : rotateResult[c] = "true" /\ rotateResult[d] = "false"

\* C13: linearized rotation.  When a request fails with a quota answer and its
\* caller marks and rotates, the key that becomes exhausted is the key the
\* request was sent with, and no other.
C13_LinearizedRotation ==
  [][\A c \in Workers :
       KeyQuota(c) => exhaustedKeys' = exhaustedKeys \cup {usedKey[c]}]_vars

\* worker w is the only one whose processBatch is being awaited
OnlyDispatch(w) ==
  /\ runPc = "running"
  /\ pc[w] = "dispatch"
  /\ \A v \in Workers \ {w} : pc[v] # "dispatch"

\* C14: a 429 answer while another key is not exhausted is not fatal.  The
\* current key is marked exhausted, the pool rotates to a key that is not, the
\* batch is released, and the process and the worker go on.
C14_QuotaNotFatal ==
  [][\A w \in Workers :
       (/\ OnlyDispatch(w)
        /\ hasAvailableKeys(markKeyExhausted(exhaustedKeys, currentKeyIndex), apiKeys)
        /\ Catch(w, HttpError(429, {})))
         => /\ runPc' = "running"
            /\ pc'[w] # "stopped"
            /\ exhaustedKeys' = markKeyExhausted(exhaustedKeys, currentKeyIndex)
            /\ currentKeyIndex' \notin exhaustedKeys'
            /\ \A i \in batch[w] : status'[i] = "unprocessed"]_vars

\* C15: the fatal path releases first.  When the worker's classification of a
\* failure ends the process, the items of its batch are 'unprocessed'.
C15_FatalReleases ==
  [][\A w \in Workers :
       (/\ OnlyDispatch(w)
        /\ runPc' = "exited"
        /\ \/ \E msg \in ErrorMessages : Catch(w, msg)
           \/ \E processed \in Responses(Cardinality(batch[w])) : Returned(w, processed))
         => \A i \in batch[w] : status'[i] = "unprocessed"]_vars

\* failures of a request with a server-error status other than 503, whatever
\* the body, and failures of the transport
ServerErrors == {HttpError(500, body) : body \in {{}, {"status"}}}
TransportErrors == {{"network"}, {"ECONNREFUSED"}}

\* C16: every failure with a server-error status other than 503, and every
\* transport failure, is classified fatal and stops the pool, whatever the
\* error body.
C16_FatalClassification ==
  [][\A w \in Workers : \A msg \in ServerErrors \cup TransportErrors :
       (OnlyDispatch(w) /\ Catch(w, msg))
         => /\ stopSignal'
            /\ runPc' = "exited"]_vars

\* C17: the default bucket is not fatal.  A response that cannot be parsed or
\* has the wrong number of results gets the batch released, the failure
\* counted, no stop, and the worker on to its pacing sleep, for every batch
\* size and every length of the response.
C17_DefaultBucket ==
  [][\A w \in Workers :
       (/\ OnlyDispatch(w)
        /\ \/ Catch(w, {})
           \/ \E processed \in Responses(Cardinality(batch[w])) :
                /\ Len(processed) # Cardinality(batch[w])
                /\ Returned(w, processed))
         => /\ runPc' = "running"
            /\ stopSignal' = stopSignal
            /\ pc'[w] = "pacing"
            /\ workerStats'[w].failed = workerStats[w].failed + 1
            /\ \A i \in batch[w] : status'[i] = "unprocessed"]_vars

\* C18: a validation failure releases without writing.  When a returned list
\* of the right length has an element that fails validation, no row becomes
\* 'completed', every item of the batch is 'unprocessed', the worker's failed
\* counter goes up by one, and the worker goes on to its pacing sleep.  (A step
\* that settles the dispatch of w either has these effects or is the step of
\* no such list.)
C18_ValidationReleases ==
  [][\A w \in Workers :
       (runPc = "running" /\ pc[w] = "dispatch" /\ pc'[w] # "dispatch")
         => \/ /\ WithStatus(status', "completed") \subseteq WithStatus(status, "completed")
               /\ \A i \in batch[w] : status'[i] = "unprocessed"
               /\ workerStats'[w].failed = workerStats[w].failed + 1
               /\ workerStats'[w].completed = workerStats[w].completed
               /\ pc'[w] = "pacing"
               /\ runPc' = "running"
               /\ stopSignal' = stopSignal
            \/ \A processed \in FullResponses(Cardinality(batch[w])) :
                 ~ /\ \E k \in 1..Len(processed) : ~processed[k].valid
                   /\ Returned(w, processed)]_vars

\* a worker in its pacing sleep after its first batch was released: nothing
\* completed, one failure on its tally, the items of the batch 'unprocessed'
C18_Witness ==
  \E w \in Workers :
    /\ runPc = "running"
    /\ pc[w] = "pacing"
    /\ batch[w] # {}
    /\ workerStats[w].failed = 1
    /\ workerStats[w].completed = 0
    /\ WithStatus(status, "completed") = {}
    /\ \A i \in batch[w] : status[i] = "unprocessed"

\* C19: exit status.  A failure of the fatal kinds (server error other than
\* 503, transport failure) ends the process with status 1; a returned list,
\* whether committed, refused by validation or of the wrong length, and a
\* response that cannot be parsed leave the process running; a run whose
\* workers have all stopped ends with status 0.
C19_ExitStatus ==
  [][/\ \A w \in Workers :
          OnlyDispatch(w)
            => /\ \A msg \in ServerErrors \cup TransportErrors :
                    Catch(w, msg) => exitCode' = 1
               /\ \A processed \in Responses(Cardinality(batch[w])) :
                    Returned(w, processed) => exitCode' = -1
               /\ Catch(w, {}) => exitCode' = -1
     /\ RunFinish => exitCode' = 0]_vars

\* every worker() promise of this run has resolved
AllWorkersStopped ==
  /\ runPc \in {"running", "done"}
  /\ \A w \in 1..config.workers : pc[w] = "stopped"

RECURSIVE SumQuestionsProcessed(_, _)
SumQuestionsProcessed(ws, S) ==
  IF S = {} THEN 0
  ELSE LET w == SetMin(S)
       IN ws[w].questionsProcessed + SumQuestionsProcessed(ws, S \ {w})

\* rows still to be completed plus questions the workers count as processed
Remaining(st, ws) ==
  Cardinality(WithStatus(st, "unprocessed")) + Cardinality(WithStatus(st, "processing"))
    + SumQuestionsProcessed(ws, Workers)

\* C20: a successful run.  With M rows to do at the start and every dispatch
\* answered by one valid result per question, all workers eventually stop;
\* whenever they have all stopped no row is unprocessed or processing and
\* every row is completed; and every step keeps the rows to do plus the
\* workers' questionsProcessed at M, so that the workers' questionsProcessed
\* add up to M at the end.
C20_SuccessfulRun ==
  /\ <>AllWorkersStopped
  /\ [](AllWorkersStopped =>
         /\ WithStatus(status, "unprocessed") = {}
         /\ WithStatus(status, "processing") = {}
         /\ WithStatus(status, "completed") = Items)
  /\ [][Remaining(status', workerStats') = Remaining(status, workerStats)]_vars

\* the run has ended with every row completed by more than one worker's batches
C20_Witness ==
  /\ runPc = "done"
  /\ exitCode = 0
  /\ WithStatus(status, "completed") = Items
  /\ SumQuestionsProcessed(workerStats, Workers) = NumItems
  /\ \A w \in 1..config.workers : workerStats[w].completed > 0
  /\ config.workers > 1

\* C21: overload, then success.  With one worker, when the first claimed
\* batch has been answered by k 503s in a row and the next dispatch succeeds,
\* the worker has counted exactly k releases and this is its one commit, the
\* batch is the one the first claim took, its items become 'completed', and
\* the 'unprocessed' rows are fewer than at the start by the size of the batch.
C21_OverloadThenSuccess ==
  [][(/\ config.workers = 1
      /\ workerStats[1].completed = 0
      /\ stats.batchNumber = consecutive503Errors + 1
      /\ DispatchSuccess(1))
       => /\ workerStats'[1].failed = consecutive503Errors
          /\ stats'.failedBatches = consecutive503Errors
          /\ workerStats'[1].completed = 1
          /\ batch[1] = claimBatchIds(markBatchFailed(status, batch[1]), config.batchSize)
          /\ \A i \in batch[1] : status'[i] = "completed"
          /\ getUnprocessedCount(status')
               = stats.totalQuestions - stats.questionsProcessed - Cardinality(batch[1])]_vars

\* one worker has committed its first batch after two 503 answers
C21_Witness ==
  /\ config.workers = 1
  /\ runPc = "running"
  /\ pc[1] = "pacing"
  /\ stats.batchNumber = 3
  /\ workerStats[1].failed = 2
  /\ workerStats[1].completed = 1
  /\ \A i \in batch[1] : status[i] = "completed"

RECURSIVE SumFailed(_, _)
SumFailed(ws, S) ==
  IF S = {} THEN 0
  ELSE LET w == SetMin(S) IN ws[w].failed + SumFailed(ws, S \ {w})

\* a step in which some worker releases the batch it holds
ReleaseEvent ==
  \E w \in Workers :
    /\ pc[w] = "dispatch"
    /\ pc'[w] \in {"pacing", "retrySleep"}
    /\ \A i \in batch[w] : status'[i] = "unprocessed"

\* C22: no lost counter updates.  In every step of a run the global
\* questionsProcessed, the sum of the workers' questionsProcessed and the
\* number of 'completed' rows grow by the same amount, and failedBatches and
\* the sum of the workers' failed counters grow by one in a step that releases
\* a batch and by nothing in any other.
C22_NoLostUpdates ==
  [][(runPc \in {"launch", "running"} /\ runPc' \in {"launch", "running", "done", "exited"})
       => LET dGlobal == stats'.questionsProcessed - stats.questionsProcessed
              dWorkers == SumQuestionsProcessed(workerStats', Workers)
                            - SumQuestionsProcessed(workerStats, Workers)
              dRows == Cardinality(WithStatus(status', "completed"))
                         - Cardinality(WithStatus(status, "completed"))
              dFailed == stats'.failedBatches - stats.failedBatches
              dWorkersFailed == SumFailed(workerStats', Workers) - SumFailed(workerStats, Workers)
          IN /\ dGlobal = dWorkers
             /\ dWorkers = dRows
             /\ dFailed = dWorkersFailed
             /\ dFailed = IF ReleaseEvent THEN 1 ELSE 0]_vars

\* C23: the limit bounds the run.  With --limit L the batches claimed in one
\* run (startBatch is called once for each) are at most L, whatever the number
\* of workers.
C23_LimitBoundsRun ==
  config.limit # NoLimit => stats.batchNumber <= config.limit

\* C24: failed batches wait for the next run.  A worker that sleeps the
\* inter-batch delay without ever having committed has just released its batch
\* after a non-fatal failure; while the same run goes on, no step claims an
\* item of that batch again.
C24_FailedBatchWaits ==
  [][\A w \in Workers :
       (/\ runPc = "running" /\ runPc' = "running"
        /\ pc[w] = "pacing"
        /\ workerStats[w].completed = 0
        /\ workerStats[w].failed > 0)
         => \A i \in batch[w] :
              status[i] = "unprocessed" => status'[i] # "processing"]_vars

\* The program's own steps are taken whenever they can be: timers fire and
\* the event loop runs every continuation that is ready.  Nothing in the code
\* makes the fetch of processBatch settle (no timeout, no AbortSignal), so the
\* answer of the service carries no fairness, and neither do SIGINT and kills.
FairRun ==
  /\ WF_vars(RunReset)
  /\ WF_vars(RunInit)
  /\ WF_vars(RunFinish)
  /\ \A w \in Workers : WF_vars(WorkerStart(w)) /\ WF_vars(WorkerWake(w))

SpecFairRun == Init /\ [][Next]_vars /\ FairRun

\* C25: dispatch always returns.  A worker waiting for processBatch
\* eventually stops waiting, whether or not the service answers.
C25_DispatchReturns ==
  \A w \in Workers :
    (runPc = "running" /\ pc[w] = "dispatch") ~> ~(runPc = "running" /\ pc[w] = "dispatch")

\* ------------------------------------------- the DatabaseClient on its own
\* What the worker pool leaves unchanged while a caller uses the client.
clientVars == <<status, config, claimCap, keyVars, validatorVars, otherVars, migratePc, runPc, nextWorker, resetChanges,
                workerVars, stopSignal, consecutive503Errors, exitCode, progressVars>>

\* the lists of ProcessedQuestion a caller passes to updateBatch
ProcessedLists ==
  UNION {{p \in FullResponses(n) : \A k \in 1..n : p[k].valid} : n \in 1..MaxBatchSize}

ClaimBatchCall(n) ==
  /\ LET st == StatusOf(questions)
         ids == claimBatchIds(st, n)
     IN /\ questions' = WithStatusColumn(questions, claimBatchUpdate(st, ids))
        /\ returned' = [op |-> "claimBatch", value |-> Cardinality(ids)]
  /\ UNCHANGED clientVars

GetUnprocessedBatchCall(n) ==
  /\ returned' = [op |-> "getUnprocessedBatch",
                  value |-> Cardinality(claimBatchIds(StatusOf(questions), n))]
  /\ UNCHANGED <<questions, clientVars>>

UpdateBatchCall(processed) ==
  /\ questions' = WithStatusColumn(updateBatchOptions(questions, processed),
                                   updateBatch(StatusOf(questions), processed, "completed"))
  /\ returned' = [op |-> "updateBatch", value |-> 0]
  /\ UNCHANGED clientVars

MarkBatchFailedCall(ids) ==
  /\ questions' = WithStatusColumn(questions, markBatchFailed(StatusOf(questions), ids))
  /\ returned' = [op |-> "markBatchFailed", value |-> 0]
  /\ UNCHANGED clientVars

ResetStuckBatchesCall ==
  /\ questions' = WithStatusColumn(questions, resetStuckBatches(StatusOf(questions)))
  /\ returned' = [op |-> "resetStuckBatches", value |-> resetStuckChanges(StatusOf(questions))]
  /\ UNCHANGED clientVars

GetUnprocessedCountCall ==
  /\ returned' = [op |-> "getUnprocessedCount",
                  value |-> getUnprocessedCount(StatusOf(questions))]
  /\ UNCHANGED <<questions, clientVars>>

GetTotalQuestionsCall ==
  /\ returned' = [op |-> "getTotalQuestions",
                  value |-> getTotalQuestions(StatusOf(questions))]
  /\ UNCHANGED <<questions, clientVars>>

\* a table that migrateDatabase has given its processing_status column
InitTable ==
  /\ status = [i \in Items |-> "unprocessed"]
  /\ config = [batchSize |-> 1, limit |-> NoLimit, workers |-> NumWorkers]
  /\ FreshMemory
  /\ FreshPool(NumKeys)
  /\ claimCap = MaxClaims
  /\ \E opt \in [Items -> BOOLEAN] : questions = migrateDatabase(opt)
  /\ returned = NoReturn
  /\ FreshValidator
  /\ NoOther
  /\ Migrated

NextTable ==
  \/ \E n \in 1..MaxBatchSize : ClaimBatchCall(n)
  \/ \E n \in 1..MaxBatchSize : GetUnprocessedBatchCall(n)
  \/ \E processed \in ProcessedLists : UpdateBatchCall(processed)
  \/ \E ids \in SUBSET Items : MarkBatchFailedCall(ids)
  \/ ResetStuckBatchesCall
  \/ GetUnprocessedCountCall
  \/ GetTotalQuestionsCall

SpecTable == InitTable /\ [][NextTable]_vars

\* C26: getUnprocessedCount counts the questions without options.  What it
\* returns is the number of rows whose b, c and d are still empty, so a row
\* that has options is not counted and the count is 0 once every row has them.
C26_CountsEmptyOptions ==
  returned.op = "getUnprocessedCount"
    => returned.value = Cardinality({i \in Items : ~questions[i].options})

\* C27: conservation.  Whatever claims, commits, releases and resets have
\* happened, the table holds the same items, each item has one of the statuses
\* unprocessed, processing, completed, and the three counts add up to the
\* total that getTotalQuestions returns, which is the total the run started with.
C27_Conservation ==
  /\ DOMAIN status = Items
  /\ \A i \in Items : status[i] \in Statuses
  /\ Cardinality(WithStatus(status, "unprocessed"))
       + Cardinality(WithStatus(status, "processing"))
       + Cardinality(WithStatus(status, "completed")) = getTotalQuestions(status)
  /\ getTotalQuestions(status) = NumItems
  /\ runPc \in {"launch", "running"} => stats.totalQuestions = getTotalQuestions(status)

C27_Witness ==
  /\ runPc = "running"
  /\ resetChanges > 0
  /\ \E w \in Workers : workerStats[w].completed > 0
  /\ \E w \in Workers : workerStats[w].failed > 0
  /\ \E w \in Workers : pc[w] = "dispatch" /\ \E i \in batch[w] : status[i] = "processing"

\* the key that is the smallest number of places, at least one, after idx in
\* the cycle 0, 1, ..., n-1, 0, ... and is not in ex
NextInCycle(idx, ex, n) ==
  LET places == {d \in 1..n : ((idx + d) % n) \notin ex}
  IN (idx + SetMin(places)) % n

\* C28: rotation order.  A call of rotateKey() that is going to return true
\* has made current the first key after the previous current one, in cyclic
\* order, that is not exhausted (the previous one itself when no other is
\* left); and the current index is always one of 0..N-1.
C28_RotationOrder ==
  /\ [](currentKeyIndex \in KeyIndexes(apiKeys))
  /\ [][\A c \in Workers :
          ((RotateKeyCall(c) \/ KeyQuota(c)) /\ keyPc'[c] = "rotating")
            => currentKeyIndex' = NextInCycle(currentKeyIndex, exhaustedKeys', apiKeys)]_vars

\* a rotation has wrapped round to key 0, the only key of the pool left
C28_Witness ==
  /\ apiKeys = NumKeys
  /\ \E c \in Workers : keyPc[c] = "rotating"
  /\ currentKeyIndex = 0
  /\ exhaustedKeys = KeyIndexes(apiKeys) \ {0}

\* C29: exhaustion is permanent.  No step takes a key out of the exhausted
\* set; a call of rotateKey() that is going to return true makes current a key
\* that is not in it; and getAvailableKeyCount(), which is the number of keys
\* of the pool that are not exhausted, never goes up.
C29_ExhaustionPermanent ==
  [][/\ exhaustedKeys \subseteq exhaustedKeys'
     /\ getAvailableKeyCount(exhaustedKeys', apiKeys')
          = Cardinality(KeyIndexes(apiKeys') \ exhaustedKeys')
     /\ getAvailableKeyCount(exhaustedKeys', apiKeys')
          <= getAvailableKeyCount(exhaustedKeys, apiKeys)
     /\ \A c \in Workers :
          ((RotateKeyCall(c) \/ KeyQuota(c)) /\ keyPc'[c] = "rotating")
            => currentKeyIndex' \notin exhaustedKeys']_vars

\* two keys are exhausted and a rotation made after that has returned true
C29_Witness ==
  /\ Cardinality(exhaustedKeys) >= 2
  /\ getAvailableKeyCount(exhaustedKeys, apiKeys) = 1
  /\ currentKeyIndex \notin exhaustedKeys
  /\ \E c \in Workers : rotateResult[c] = "true"

\* C30: the retry counter is a worker's own.  The count that a worker
\* compares with the cap after a 503 answer is a count of 503 answers to its
\* own requests: it is never more than the number of batches this worker has
\* released so far plus the answer just received.
C30_OwnRetryCounter ==
  [][\A w \in Workers :
       (runPc = "running" /\ pc[w] = "dispatch" /\ Catch(w, HttpError(503, {})))
         => consecutive503Errors' <= workerStats[w].failed + 1]_vars

\* a step in which some worker's processBatch settles and the worker takes
\* the 503 branch of its catch block
OverloadStep ==
  /\ runPc = "running"
  /\ \E w \in Workers :
       /\ pc[w] = "dispatch"
       /\ pc'[w] = "retrySleep" \/ runPc' = "exited"
       /\ ~CommitStep(w)

\* C31: a commit resets the retry counter.  A step that commits a batch
\* leaves the 503 counter at 0; the counter changes only by going to 0 or by
\* going up by one in a step that takes the 503 branch; and the process exits
\* from the 503 branch only with the counter at MAX_503_RETRIES.  So that exit
\* follows MAX_503_RETRIES answers taken for overload with no commit between.
C31_CommitResetsRetries ==
  [][/\ (runPc = "running" /\ \E w \in Workers : CommitStep(w))
          => consecutive503Errors' = 0
     /\ consecutive503Errors' # consecutive503Errors
          => \/ consecutive503Errors' = 0
             \/ consecutive503Errors' = consecutive503Errors + 1 /\ OverloadStep
     /\ (OverloadStep /\ runPc' = "exited" /\ consecutive503Errors' # consecutive503Errors)
          => consecutive503Errors' = MAX_503_RETRIES]_vars

\* the process has exited from the 503 branch in a run that committed a batch
C31_Witness ==
  /\ runPc = "exited"
  /\ consecutive503Errors = MAX_503_RETRIES
  /\ \E w \in Workers : workerStats[w].completed > 0

\* C32: the commit precondition is checked first.  When processBatch
\* returns a list whose length is not the size of the worker's batch, the
\* worker commits nothing (no row changes to 'completed', no batch is counted
\* as completed) and its batch is released: every row of it is 'unprocessed'.
C32_LengthCheckedFirst ==
  [][\A w \in Workers :
       (runPc = "running" /\ pc[w] = "dispatch" /\ vars' # vars)
         => \A processed \in ShortResponses(Cardinality(batch[w])) :
              Returned(w, processed)
                => /\ ~CommitStep(w)
                   /\ WithStatus(status', "completed") = WithStatus(status, "completed")
                   /\ \A i \in batch[w] : status'[i] = "unprocessed"]_vars

\* C33: the batch is held through the retry delay.  While a worker sleeps
\* the 503 retry delay, the rows of the batch that got the 503 answer are
\* still 'processing', so that no other worker can claim them before the
\* delay has elapsed.
C33_HeldThroughRetryDelay ==
  \A w \in Workers :
    (runPc = "running" /\ pc[w] = "retrySleep")
      => \A i \in batch[w] : status[i] = "processing"

\* C34: store operations are all-or-nothing.  The step that holds the
\* transaction of claimBatch leaves every row of the claimed batch
\* 'processing', and the step that holds the transaction of updateBatch leaves
\* either every row of the worker's batch 'completed' or every row of it as it
\* was; a kill falls before or after such a step, so no restart finds a batch
\* of which one commit has completed a part.
C34_AllOrNothing ==
  [][\A w \in Workers :
       /\ (runPc' = "running" /\ ClaimStep(w))
            => \A i \in batch'[w] : status'[i] = "processing"
       /\ (runPc = "running" /\ CommitStep(w))
            => \/ \A i \in batch[w] : status'[i] = "completed"
               \/ \A i \in batch[w] : status'[i] = status[i]]_vars

\* ------------------------------------------------ the Validator on its own
\* What a list going through the Validator leaves unchanged.
listVars == <<status, config, claimCap, keyVars, tableVars, otherVars, migratePc, runPc, nextWorker, resetChanges,
              workerVars, stopSignal, consecutive503Errors, exitCode, progressVars>>

\* the lists processBatch returns for a batch of 1..MaxBatchSize questions
ReceivedLists == UNION {[1..n -> ProcessedQuestions] : n \in 1..MaxBatchSize}

\* worker(): sanitizeBatch, validateBatch, then markBatchFailed or
\* updateBatch(sanitized), in one turn of the event loop
HandleReceived ==
  /\ outcome = "none"
  /\ sanitized' = sanitizeBatch(received)
  /\ validationResult' = validateQuestions(sanitizeBatch(received))
  /\ outcome' = IF ~validateQuestions(sanitizeBatch(received)).valid
                THEN "markBatchFailed" ELSE "updateBatch"
  /\ UNCHANGED <<received, listVars>>

\* sanitizeBatch called on its own
SanitizeBatchCall ==
  /\ outcome = "none"
  /\ sanitized' = sanitizeBatch(received)
  /\ UNCHANGED <<received, validationResult, outcome, listVars>>

\* validateBatch called on its own, on the list as received
ValidateBatchCall ==
  /\ outcome = "none"
  /\ validationResult' = validateQuestions(received)
  /\ UNCHANGED <<received, sanitized, outcome, listVars>>

InitValidator ==
  /\ status = [i \in Items |-> "unprocessed"]
  /\ config = [batchSize |-> 1, limit |-> NoLimit, workers |-> NumWorkers]
  /\ FreshMemory
  /\ FreshPool(NumKeys)
  /\ FreshTable
  /\ NoOther
  /\ Migrated
  /\ claimCap = MaxClaims
  /\ received \in ReceivedLists
  /\ sanitized = <<>>
  /\ validationResult = NoResult
  /\ outcome = "none"

NextValidator ==
  \/ HandleReceived
  \/ SanitizeBatchCall
  \/ ValidateBatchCall

SpecValidator == InitValidator /\ [][NextValidator]_vars

\* every question of the list has four different, non-empty options
OptionsValid(qs) == \A k \in 1..Len(qs) : qs[k].options = "distinct"

\* C35: sanitize before validate.  Once the worker has handled a list:
\* sanitizeBatch has replaced metadata that is not JSON by undefined and left
\* every other question as it was; validateBatch has not failed for the
\* metadata; and a list whose options are all valid has gone to updateBatch,
\* not to markBatchFailed, whatever its metadata was.
C35_SanitizeBeforeValidate ==
  outcome # "none"
    => /\ Len(sanitized) = Len(received)
       /\ \A k \in 1..Len(received) :
            IF received[k].metadata = "malformed"
            THEN sanitized[k] = [received[k] EXCEPT !.metadata = "absent"]
            ELSE sanitized[k] = received[k]
       /\ validationResult.reason # "Invalid JSON metadata"
       /\ OptionsValid(received) => validationResult.valid /\ outcome = "updateBatch"

\* a list of valid options with one malformed and one well-formed metadata
\* has been committed
C35_Witness ==
  /\ outcome = "updateBatch"
  /\ \E j, k \in 1..Len(received) :
       /\ received[j].metadata = "malformed" /\ sanitized[j].metadata = "absent"
       /\ received[k].metadata = "json" /\ sanitized[k].metadata = "json"

\* C36: completion at exhaustion.  In a run with no --limit in which no
\* stop was requested and no fatal error met, once every worker has stopped
\* (each because its claimBatch returned no rows) every item is 'completed':
\* none is 'unprocessed' and none is 'processing'.
C36_CompleteAtExhaustion ==
  (/\ runPc \in {"running", "done"}
   /\ ~stopSignal
   /\ config.limit = NoLimit
   /\ \A w \in 1..config.workers : pc[w] = "stopped")
    => \A i \in Items : status[i] = "completed"

\* ------------------------------------------- a second process on the table
\* The same command started once more, with --workers 1 --limit 1, while the
\* first process may be anywhere in its run.  Only what it does to the table
\* is followed, not its progress counters.
procVars == <<config, claimCap, keyVars, tableVars, validatorVars, migratePc, runPc, nextWorker,
              resetChanges, workerVars, stopSignal, consecutive503Errors, exitCode,
              progressVars>>

\* run() of the second process up to its first await: resetStuckBatches, the
\* counts, the early return, and worker(1) up to its call of processBatch
OtherRun ==
  /\ otherPc = "absent"
  /\ LET reset == resetStuckBatches(status)
         ids == claimBatchIds(reset, config.batchSize)
     IN IF getUnprocessedCount(reset) = 0
        THEN /\ status' = reset
             /\ otherPc' = "done"
             /\ otherBatch' = {}
        ELSE /\ status' = claimBatchUpdate(reset, ids)
             /\ otherPc' = "dispatch"
             /\ otherBatch' = ids
  /\ UNCHANGED procVars

\* processBatch of the second process settles: commit or release, and the
\* worker leaves its loop at the limit
OtherSettles ==
  /\ otherPc = "dispatch"
  /\ \/ \E processed \in EchoResponses(otherBatch) :
          status' = updateBatch(status, processed, "completed")
     \/ status' = markBatchFailed(status, otherBatch)
  /\ otherPc' = "done"
  /\ UNCHANGED <<otherBatch, procVars>>

NextTwo ==
  \/ Next
  \/ OtherRun
  \/ OtherSettles

SpecTwo == Init /\ [][NextTwo]_vars

\* the batch the worker of the second process holds between its claimBatch
\* and its updateBatch or markBatchFailed
OtherOutstanding == IF otherPc = "dispatch" THEN otherBatch ELSE {}

\* C37: mutual exclusion across processes.  No item is at the same time in
\* the outstanding batch of a worker of the first process and in the
\* outstanding batch of the second process.
C37_ExclusionAcrossProcesses ==
  \A w \in Workers : Outstanding(w) \cap OtherOutstanding = {}

\* ------------------------------------------------------- migrateDatabase
\* What migrateDatabase and the calls of the client leave unchanged.
migrateVars == <<status, config, claimCap, keyVars, validatorVars, otherVars, runPc,
                 nextWorker, resetChanges, workerVars, stopSignal, consecutive503Errors,
                 exitCode, progressVars>>

\* migrateDatabase up to the end of its first statement: the check for the
\* column and the early return, or ALTER TABLE
MigrateStart ==
  /\ migratePc = "idle"
  /\ IF hasStatusColumn(questions)
     THEN /\ migratePc' = "returned"
          /\ UNCHANGED questions
     ELSE /\ migratePc' = "altered"
          /\ questions' = addStatusColumn(questions)
  /\ UNCHANGED <<returned, migrateVars>>

\* CREATE INDEX IF NOT EXISTS idx_processing_status
MigrateIndex ==
  /\ migratePc = "altered"
  /\ migratePc' = "indexed"
  /\ UNCHANGED <<questions, returned, migrateVars>>

\* the UPDATE of the rows that have answers, and the return
MigrateUpdate ==
  /\ migratePc = "indexed"
  /\ questions' = markAnswered(questions)
  /\ migratePc' = "returned"
  /\ UNCHANGED <<returned, migrateVars>>

\* the process is killed between two statements of migrateDatabase, or ends
\* after it, and the command is run again
MigrateRerun ==
  /\ migratePc # "idle"
  /\ migratePc' = "idle"
  /\ UNCHANGED <<questions, returned, migrateVars>>

\* the run uses the table once migrateDatabase has returned
ClientCall ==
  /\ migratePc = "returned"
  /\ NextTable

InitMigrate ==
  /\ status = [i \in Items |-> "unprocessed"]
  /\ config = [batchSize |-> 1, limit |-> NoLimit, workers |-> NumWorkers]
  /\ FreshMemory
  /\ FreshPool(NumKeys)
  /\ claimCap = MaxClaims
  /\ \E opt \in [Items -> BOOLEAN] : questions = importedTable(opt)
  /\ returned = NoReturn
  /\ FreshValidator
  /\ NoOther
  /\ migratePc = "idle"

NextMigrate ==
  \/ MigrateStart
  \/ MigrateIndex
  \/ MigrateUpdate
  \/ MigrateRerun
  \/ ClientCall

SpecMigrate == InitMigrate /\ [][NextMigrate]_vars

\* C38: migration is idempotent and crash-safe.  When migrateDatabase
\* returns and the table has not been used yet, in the first run or in a run
\* that follows a kill inside an earlier migration, every row that had an
\* answer in b is 'completed' and every other row 'unprocessed'; and a call on
\* a table that has the column changes no status.
C38_MigrationCrashSafe ==
  [][/\ (migratePc # "returned" /\ migratePc' = "returned" /\ returned = NoReturn)
          => \A i \in Items :
               questions'[i].processing_status
                 = IF questions'[i].options THEN "completed" ELSE "unprocessed"
     /\ (migratePc = "idle" /\ hasStatusColumn(questions))
          => StatusOf(questions') = StatusOf(questions)]_vars

\* C39: the batch counter stays within the plan.  While a run has its
\* ProgressTracker, batchNumber is at most totalBatches, so the percentage
\* getProgress shows is at most 100 and its remainingBatches is not negative.
C39_BatchNumberWithinPlan ==
  runPc \in {"launch", "running"}
    => /\ stats.batchNumber <= stats.totalBatches
       /\ stats.totalBatches - stats.batchNumber >= 0

\* C40: one batch, one number in the log.  When a worker logs the failure
\* of its batch (logValidationError or logError with getBatchNumber()), the
\* number it writes is the number its logBatch line gave the batch at the
\* claim, whatever other workers have claimed in between.
C40_SameNumberInLog ==
  [][/\ \A w \in Workers :
          (runPc = "running" /\ pc[w] = "dispatch" /\ ReleaseStep(w))
            => getBatchNumber(stats) = claimLogged[w]
     /\ (runPc = "running" /\ runPc' = "exited")
          => \E w \in Workers : pc[w] = "dispatch" /\ getBatchNumber(stats) = claimLogged[w]]_vars
====
